---- MODULE Spec2Model ----
(***************************************************************************)
(* Model of go-ai-model-trainer.py: the data-acquisition pipeline          *)
(* (GitHubGoScraper, GoDataProcessor, GoDocsScraper, GoModelTrainer).      *)
(*                                                                         *)
(* A Python str is modelled as a sequence of one-character strings; the    *)
(* literal text of an f-string template is kept as one element.            *)
(***************************************************************************)
EXTENDS Integers, Sequences, FiniteSets, TLC

VARIABLES
    entry,          \* the method under execution
    pc,             \* its position: the next outbound call, "done" or "raised"
    token,          \* github_token
    limit,          \* get_top_go_repos: limit
    repos,          \* get_top_go_repos: repos
    page,           \* get_top_go_repos: page
    top,            \* value returned by get_top_go_repos
    fetched,        \* history: concatenation of the pages the upstream answered
    calls,          \* history: number of search requests issued
    failedAt,       \* history: page number of the failed search request, 0 if none
    emptyPage,      \* history: the last answered page had no items
    ri,             \* collect_training_data: index in repos[:50]
    files,          \* collect_training_data: files of the current repository
    fi,             \* collect_training_data: index in files
    treeLog,        \* history: outcome of each tree-listing request
    dlLog,          \* history: outcome of each content request
    slept,          \* history: a time.sleep followed the last outbound call
    training_data,  \* GoModelTrainer.training_data
    docs,           \* scrape_documentation: docs, in insertion order
    di,             \* scrape_documentation: index in pages
    examples,       \* value returned by scrape_examples
    tree,           \* get_repo_files: the 'tree' of the response
    max_files,      \* get_repo_files: max_files
    go_files,       \* value returned by get_repo_files
    code,           \* create_training_pairs: code
    context,        \* create_training_pairs: context
    pairs,          \* value returned by create_training_pairs
    fs,             \* the file system: path -> text of the file, or NoFile
    disk,           \* history: path -> the pair sequence the file holds
    last,           \* history: the last save/load call
    upstream,       \* what the remote hosts answer in this run
    lastCall,       \* history: the last outbound call of collect_training_data
    pageLog,        \* history: outcome of each documentation request
    ncontent,       \* history: number of content requests issued
    cleaned         \* value returned by clean_go_code

vars == <<entry, pc, token, limit, repos, page, top, fetched, calls, failedAt,
          emptyPage, ri, files, fi, treeLog, dlLog, slept, training_data, docs,
          di, examples, tree, max_files, go_files, code, context, pairs, fs,
          disk, last, upstream, lastCall, pageLog, ncontent, cleaned>>

searchVars == <<limit, repos, page, top, fetched, calls, failedAt, emptyPage>>
loopVars == <<ri, files, fi, treeLog, dlLog>>
docVars == <<docs, di, examples>>
filesVars == <<tree, max_files, go_files>>
pairsVars == <<code, context, pairs, cleaned>>
histVars == <<lastCall, pageLog, ncontent>>
storeVars == <<fs, disk, last>>

----------------------------------------------------------------------------
(* Bounds of the model *)

MaxLimit == 3
MaxRepos == 2
MaxPageItems == 2
MaxPage == 3
MaxTree == 3
MaxFiles == 3
MaxCode == 3
MaxStr == 2
MaxPairs == 2
MaxDocFailures == 1
MaxTokens == 4

----------------------------------------------------------------------------
(* Sequence helpers: Python slicing and str methods *)

Min(a, b) == IF a < b THEN a ELSE b

\* s[:n] for n >= 0
Take(s, n) == SubSeq(s, 1, Min(n, Len(s)))

\* all sequences over S of length at most n
SeqUpTo(S, n) == UNION {[1..k -> S] : k \in 0..n}

\* str.endswith
EndsWith(s, suffix) ==
    /\ Len(s) >= Len(suffix)
    /\ SubSeq(s, Len(s) - Len(suffix) + 1, Len(s)) = suffix

\* characters str.strip() and the regex class \s treat as whitespace
WS == {" ", "\t", "\n", "\r"}

RECURSIVE LStrip(_)
LStrip(s) == IF s # <<>> /\ s[1] \in WS THEN LStrip(Tail(s)) ELSE s

RECURSIVE RStrip(_)
RStrip(s) ==
    IF s # <<>> /\ s[Len(s)] \in WS THEN RStrip(SubSeq(s, 1, Len(s) - 1)) ELSE s

\* str.strip()
Strip(s) == RStrip(LStrip(s))

----------------------------------------------------------------------------
(* GoDataProcessor *)

\* c occurs in s at or after index i
Has(s, i, c) == \E j \in i..Len(s) : s[j] = c

\* index of the first "\n" at or after i, Len(s) + 1 if there is none
RECURSIVE EndOfLine(_, _)
EndOfLine(s, i) ==
    IF i > Len(s) \/ s[i] = "\n" THEN i ELSE EndOfLine(s, i + 1)

\* re.sub(r'//.*$', '', code, flags=re.MULTILINE), scanning from index i
RECURSIVE SubLineComments(_, _)
SubLineComments(s, i) ==
    IF i > Len(s) THEN <<>>
    ELSE IF ~Has(s, i, "/") THEN SubSeq(s, i, Len(s))
    ELSE IF s[i] = "/" /\ i < Len(s) /\ s[i + 1] = "/"
         THEN SubLineComments(s, EndOfLine(s, i))
         ELSE <<s[i]>> \o SubLineComments(s, i + 1)

\* index of the first "*" of the first "*/" at or after j, 0 if there is none
RECURSIVE BlockEnd(_, _)
BlockEnd(s, j) ==
    IF j >= Len(s) THEN 0
    ELSE IF s[j] = "*" /\ s[j + 1] = "/" THEN j ELSE BlockEnd(s, j + 1)

\* re.sub(r'/\*.*?\*/', '', code, flags=re.DOTALL), scanning from index i
RECURSIVE SubBlockComments(_, _)
SubBlockComments(s, i) ==
    IF i > Len(s) THEN <<>>
    ELSE IF ~Has(s, i, "/") THEN SubSeq(s, i, Len(s))
    ELSE IF s[i] = "/" /\ i < Len(s) /\ s[i + 1] = "*" /\ BlockEnd(s, i + 2) # 0
         THEN SubBlockComments(s, BlockEnd(s, i + 2) + 2)
         ELSE <<s[i]>> \o SubBlockComments(s, i + 1)

\* index of the last "\n" of the whitespace run that starts at j (the greedy
\* \s* followed by \n), or best if the run holds none
RECURSIVE LastNewline(_, _, _)
LastNewline(s, j, best) ==
    IF j > Len(s) \/ s[j] \notin WS THEN best
    ELSE LastNewline(s, j + 1, IF s[j] = "\n" THEN j ELSE best)

\* re.sub(r'\n\s*\n', '\n', code), scanning from index i
RECURSIVE SubBlankLines(_, _)
SubBlankLines(s, i) ==
    IF i > Len(s) THEN <<>>
    ELSE IF ~Has(s, i, "\n") THEN SubSeq(s, i, Len(s))
    ELSE IF s[i] = "\n" /\ LastNewline(s, i + 1, 0) # 0
         THEN <<"\n">> \o SubBlankLines(s, LastNewline(s, i + 1, 0) + 1)
         ELSE <<s[i]>> \o SubBlankLines(s, i + 1)

clean_go_code_KeepBlocks(c) ==
    Strip(SubBlankLines(SubLineComments(c, 1), 1))

clean_go_code(c) ==
    Strip(SubBlankLines(SubBlockComments(SubLineComments(c, 1), 1), 1))

\* code[:500]
PromptChars == 500

\* content[:1000]
DocChars == 1000

GeneratePairWhole(c, ctx) ==
    [prompt |-> <<"Write Go code for: ">> \o ctx, completion |-> c]

ExplainPair(c, ctx) ==
    [prompt |-> <<"Explain this Go code:\n\n">> \o Take(c, PromptChars),
     completion |-> <<"This Go code ">> \o ctx
                    \o <<". Here's what it does:\n\n[Detailed explanation]">>]

GeneratePair(c, ctx) ==
    [prompt |-> <<"Write Go code for: ">> \o ctx,
     completion |-> Take(c, PromptChars)]

DebugPair(c) ==
    [prompt |-> <<"Debug this Go code:\n\n">> \o Take(c, PromptChars),
     completion |-> <<"Here are potential issues and improvements:\n\n[Analysis]">>]

ImprovePair(c) ==
    [prompt |-> <<"Improve this Go code:\n\n">> \o Take(c, PromptChars),
     completion |-> <<"Here's an improved version following Go best practices:\n\n[Refactored code]">>]

NoCodeUnstripped(c) == c = <<>>

\* the guard of create_training_pairs: "if not code.strip()"
NoCode(c) == Strip(c) = <<>>

create_training_pairs(c, ctx) ==
    IF NoCode(c) THEN <<>>
    ELSE <<ExplainPair(c, ctx)>>
         \o (IF ctx # <<>> THEN <<GeneratePair(c, ctx)>> ELSE <<>>)
         \o <<DebugPair(c)>>
         \o <<ImprovePair(c)>>

----------------------------------------------------------------------------
(* GitHubGoScraper *)

\* the upstream: repository records, search pages, tree listings, contents
RepoNames == {<<"o/a">>, <<"o/b">>}
Items == {[full_name |-> n] : n \in RepoNames}
SearchPages == SeqUpTo(Items, MaxPageItems)

GoSuffix == <<".", "g", "o">>
MainGo == <<"m", "a", "i", "n", ".", "g", "o">>
LibGo == <<"l", "i", "b", ".", "g", "o">>
Readme == <<"R", "E", "A", "D", "M", "E", ".", "m", "d">>
Blob(p) == [type |-> "blob", path |-> p]
Dir(p) == [type |-> "tree", path |-> p]

\* tree listings answered to collect_training_data
Trees == {<<>>,
          <<Blob(MainGo), Blob(Readme)>>,
          <<Dir(GoSuffix), Blob(LibGo), Blob(MainGo)>>}

\* decoded file contents answered to collect_training_data
MainGoText ==
    <<"package main", "\n", "/", "/", " ", "hi", "\n", "func main(){}", "\n">>
Contents == {<<>>, <<"/", "/", " ", "c">>, MainGoText}

TruncateOff(r, n) == r

\* repos[:limit]
Truncate(r, n) == Take(r, n)

\* repos.extend(data['items'])
Extend(r, items) == r \o items

\* the while condition of get_top_go_repos
MorePages(r, n) == Len(r) < n

OnSearchErrorContinue == "search"

\* the except branch of get_top_go_repos: break
OnSearchError == "return"

KeepItemNoCap(item, acc, mf) ==
    /\ item.type = "blob"
    /\ EndsWith(item.path, GoSuffix)

\* the filter of get_repo_files
KeepItem(item, acc, mf) ==
    /\ item.type = "blob"
    /\ EndsWith(item.path, GoSuffix)
    /\ Len(acc) < mf

\* the for loop of get_repo_files over tree.get('tree', [])
RECURSIVE FilterTree(_, _, _)
FilterTree(t, acc, mf) ==
    IF t = <<>> THEN acc
    ELSE FilterTree(Tail(t),
                    IF KeepItem(Head(t), acc, mf) THEN Append(acc, Head(t)) ELSE acc,
                    mf)

get_repo_files(t, mf) == FilterTree(t, <<>>, mf)

\* the except branch of get_repo_files: return []
OnTreeError == <<>>

\* the except branch of download_file_content catches requests.RequestException
\* only: KeyError, binascii.Error and UnicodeDecodeError leave the method
Caught(outcome) == outcome = "request_error"

\* os.getenv('GITHUB_TOKEN') when the variable is not set
Absent == "<None>"

TruthyAlways(tok) == TRUE

\* line 281: if github_token
Truthy(tok) == tok \notin {Absent, ""}

\* repos[:50]
TopRepos == 50

\* max_files=20
RepoMaxFiles == 20

\* 'per_page': 100
PerPage == 100

----------------------------------------------------------------------------
(* The remote hosts.  "bounded": any of the small answers above;
   "saturating": every request succeeds with as much as it can carry;
   "top_only": the same, but only the first repository has files;
   "texts": one repository whose main.go holds any of the texts FileTexts *)

Full == {"saturating", "top_only"}

\* a full search page
FullPage == [i \in 1..PerPage |-> [full_name |-> <<"o/a">>]]

\* a tree with more .go blobs than max_files
FullTree == [i \in 1..(RepoMaxFiles + 1) |-> Blob(MainGo)]

\* a text longer than the prompt window
LongText == [i \in 1..(PromptChars + 1) |-> "x"]

\* texts built from at most MaxTokens comment tokens
Tokens == {<<"/">>, <<"*">>, <<"\n">>, <<" ">>, <<"a">>,
           <<"/", "/">>, <<"/", "*">>, <<"*", "/">>}

RECURSIVE Flatten(_)
Flatten(ts) == IF ts = <<>> THEN <<>> ELSE Head(ts) \o Flatten(Tail(ts))

CleanInputs == {Flatten(ts) : ts \in SeqUpTo(Tokens, MaxTokens)}

FileTexts == CleanInputs \cup {MainGoText, LongText}

UpstreamPages ==
    CASE upstream \in Full -> {FullPage}
      [] upstream = "texts" -> {<<[full_name |-> <<"o/a">>]>>}
      [] OTHER -> SearchPages

UpstreamTrees ==
    CASE upstream = "saturating" -> {FullTree}
      [] upstream = "top_only" -> IF ri = 1 THEN {FullTree} ELSE {<<>>}
      [] upstream = "texts" -> {<<Blob(MainGo), Blob(Readme)>>}
      [] OTHER -> Trees

UpstreamContents ==
    CASE upstream \in Full -> {<<"x">>}
      [] upstream = "texts" -> FileTexts
      [] OTHER -> Contents

\* history: no outbound call yet
NoRequest == [kind |-> "none", ok |-> FALSE, at |-> <<0, 0>>, text |-> <<>>,
              before |-> 0]

\* history: an outbound call, its outcome, the unit it asked for, the text it
\* answered and the length of training_data when it was issued
Request(kind, ok, at, text) ==
    [kind |-> kind, ok |-> ok, at |-> at, text |-> text,
     before |-> Len(training_data)]

----------------------------------------------------------------------------
(* get_top_go_repos: one step per search request *)

\* lines 65-75: the request succeeds and answers items
\* (the model follows the loop up to page MaxPage)
SearchPageOk ==
    /\ pc = "search"
    /\ MorePages(repos, limit)
    /\ page <= MaxPage
    /\ \E items \in UpstreamPages :
        /\ repos' = Extend(repos, items)
        /\ fetched' = fetched \o items
        /\ emptyPage' = (items = <<>>)
    /\ page' = page + 1
    /\ calls' = calls + 1
    /\ slept' = TRUE
    /\ lastCall' = Request("search", TRUE, <<page, 0>>, <<>>)
    /\ UNCHANGED <<pageLog, ncontent>>
    /\ UNCHANGED <<entry, upstream, pc, token, limit, top, failedAt, loopVars,
                   training_data, docVars, filesVars, pairsVars, storeVars>>

\* lines 77-79: the request raises requests.RequestException
SearchPageFail ==
    /\ pc = "search"
    /\ MorePages(repos, limit)
    /\ page <= MaxPage
    /\ pc' = OnSearchError
    /\ calls' = calls + 1
    /\ failedAt' = page
    /\ slept' = FALSE
    /\ lastCall' = Request("search", FALSE, <<page, 0>>, <<>>)
    /\ UNCHANGED <<pageLog, ncontent>>
    /\ UNCHANGED <<entry, upstream, token, limit, repos, page, top, fetched, emptyPage,
                   loopVars, training_data, docVars, filesVars, pairsVars,
                   storeVars>>

TargetsAll == top

\* repos[:50]
Targets == Take(top, TopRepos)

\* line 81, and for collect_training_data the entry of the loop of line 285.
\* The locals of get_top_go_repos, and the history of its requests, end with
\* the call when collect_training_data goes on.
ReturnTopRepos ==
    /\ \/ pc = "return"
       \/ pc = "search" /\ ~MorePages(repos, limit)
    /\ top' = Truncate(repos, limit)
    /\ IF entry = "get_top_go_repos"
       THEN /\ pc' = "done"
            /\ UNCHANGED <<repos, page, fetched, calls, failedAt, emptyPage,
                           lastCall>>
       ELSE /\ pc' = IF Take(top', TopRepos) = <<>> THEN "docs" ELSE "tree"
            /\ repos' = <<>>
            /\ page' = 1
            /\ fetched' = <<>>
            /\ calls' = 0
            /\ failedAt' = 0
            /\ emptyPage' = FALSE
            /\ lastCall' = [lastCall EXCEPT !.at = <<0, 0>>]
    /\ UNCHANGED <<entry, upstream, token, limit, loopVars, slept, pageLog,
                   ncontent, training_data, docVars,
                   filesVars, pairsVars, storeVars>>

----------------------------------------------------------------------------
(* collect_training_data: one step per outbound request *)

repo_name == Targets[ri].full_name

\* the end of the body of "for repo in repos[:50]"
NextRepo ==
    IF ri < Len(Targets)
    THEN ri' = ri + 1 /\ pc' = "tree"
    ELSE ri' = ri /\ pc' = "docs"

RetryFile == fi' = fi /\ ri' = ri /\ pc' = "file"

\* the end of the body of "for file_info in files"
NextFile ==
    /\ fi' = fi + 1
    /\ IF fi < Len(files) THEN ri' = ri /\ pc' = "file" ELSE NextRepo

\* lines 294-300: what one downloaded content adds to training_data
FilePairs(content, name) ==
    IF content # <<>> /\ clean_go_code(content) # <<>>
    THEN create_training_pairs(clean_go_code(content), <<"from ">> \o name)
    ELSE <<>>

\* line 289, the tree request succeeds (lines 92-104)
GetRepoFilesOk ==
    /\ pc = "tree"
    /\ \E t \in UpstreamTrees :
        /\ files' = get_repo_files(t, RepoMaxFiles)
        /\ fi' = 1
        /\ IF files' = <<>> THEN NextRepo ELSE ri' = ri /\ pc' = "file"
    /\ treeLog' = Append(treeLog, "ok")
    /\ slept' = FALSE
    /\ lastCall' = Request("tree", TRUE, <<ri, 0>>, <<>>)
    /\ UNCHANGED <<pageLog, ncontent>>
    /\ UNCHANGED <<entry, upstream, token, searchVars, dlLog, training_data, docVars,
                   filesVars, pairsVars, storeVars>>

GetRepoFilesRaise ==
    /\ pc = "tree"
    /\ pc' = "raised"
    /\ treeLog' = Append(treeLog, "request_error")
    /\ slept' = FALSE
    /\ lastCall' = Request("tree", FALSE, <<ri, 0>>, <<>>)
    /\ UNCHANGED <<pageLog, ncontent>>
    /\ UNCHANGED <<entry, upstream, token, searchVars, ri, files, fi, dlLog,
                   training_data, docVars, filesVars, pairsVars, storeVars>>

\* line 289, the tree request raises requests.RequestException (lines 106-108)
GetRepoFilesFail ==
    /\ pc = "tree"
    /\ files' = OnTreeError
    /\ fi' = 1
    /\ IF files' = <<>> THEN NextRepo ELSE ri' = ri /\ pc' = "file"
    /\ treeLog' = Append(treeLog, "request_error")
    /\ slept' = FALSE
    /\ lastCall' = Request("tree", FALSE, <<ri, 0>>, <<>>)
    /\ UNCHANGED <<pageLog, ncontent>>
    /\ UNCHANGED <<entry, upstream, token, searchVars, dlLog, training_data, docVars,
                   filesVars, pairsVars, storeVars>>

\* line 292, the content request succeeds and decodes (lines 113-124)
DownloadOk ==
    /\ pc = "file"
    /\ \E content \in UpstreamContents :
        /\ training_data' = training_data \o FilePairs(content, repo_name)
        /\ lastCall' = Request("content", TRUE, <<ri, fi>>, content)
    /\ NextFile
    /\ dlLog' = "ok"
    /\ slept' = TRUE
    /\ ncontent' = ncontent + 1
    /\ UNCHANGED pageLog
    /\ UNCHANGED <<entry, upstream, token, searchVars, files, treeLog, docVars, filesVars,
                   pairsVars, storeVars>>

\* line 292, the content request fails: a RequestException is answered with
\* None (lines 126-128), any other exception leaves collect_training_data
DownloadError ==
    /\ pc = "file"
    /\ \E outcome \in {"request_error", "decode_error"} :
        /\ dlLog' = outcome
        /\ IF Caught(outcome)
           THEN NextFile
           ELSE pc' = "raised" /\ UNCHANGED <<ri, fi>>
    /\ slept' = FALSE
    /\ lastCall' = Request("content", FALSE, <<ri, fi>>, <<>>)
    /\ ncontent' = ncontent + 1
    /\ UNCHANGED pageLog
    /\ UNCHANGED <<entry, upstream, token, searchVars, files, treeLog, training_data,
                   docVars, filesVars, pairsVars, storeVars>>

----------------------------------------------------------------------------
(* GoDocsScraper *)

\* lines 217-225
pages == <<<<"/doc/">>, <<"/doc/tutorial/">>, <<"/doc/effective_go.html">>,
           <<"/doc/code.html">>, <<"/doc/faq">>,
           <<"/doc/debugging_with_gdb.html">>, <<"/doc/diagnostics.html">>>>

\* page texts the documentation host answers
DocTexts == {<<"<html>", "Go", "</html>">>}

\* response.text of page p: one page answers an empty body, one a body of
\* whitespace, the others any text of DocTexts
PageTexts(p) ==
    CASE p = <<"/doc/faq">> -> {<<>>}
      [] p = <<"/doc/code.html">> -> {<<" ", "\n">>}
      [] OTHER -> DocTexts

\* index of the first ">" at or after j, 0 if there is none
RECURSIVE TagEnd(_, _)
TagEnd(s, j) ==
    IF j > Len(s) THEN 0 ELSE IF s[j] = ">" THEN j ELSE TagEnd(s, j + 1)

\* re.sub(r'<[^>]+>', '', match), scanning from index i
RECURSIVE SubTags(_, _)
SubTags(s, i) ==
    IF i > Len(s) THEN <<>>
    ELSE IF s[i] = "<" /\ TagEnd(s, i + 1) > i + 1
         THEN SubTags(s, TagEnd(s, i + 1) + 1)
         ELSE <<s[i]>> \o SubTags(s, i + 1)

\* lines 258-261: one example per matched block
RECURSIVE CleanMatches(_)
CleanMatches(matches) ==
    IF matches = <<>> THEN <<>>
    ELSE <<Strip(SubTags(Head(matches), 1))>> \o CleanMatches(Tail(matches))

\* the blocks re.findall extracts from the examples page
CodeBlock == <<"<", "span", ">", "fmt.Println()", "<", "/span", ">", "\n">>
EmptyBlock == <<" ", "<", "br", ">">>
ExampleMatches == {<<>>, <<CodeBlock>>, <<CodeBlock, EmptyBlock>>}

\* lines 308-314
RECURSIVE DocPairs(_)
DocPairs(d) ==
    IF d = <<>> THEN <<>>
    ELSE (IF Head(d).content # <<>>
          THEN create_training_pairs(Take(Head(d).content, DocChars),
                                     <<"Go documentation from ">> \o Head(d).page)
          ELSE <<>>)
         \o DocPairs(Tail(d))

RECURSIVE ExamplePairsNoLabel(_)
ExamplePairsNoLabel(e) ==
    IF e = <<>> THEN <<>>
    ELSE create_training_pairs(Head(e), <<>>) \o ExamplePairsNoLabel(Tail(e))

\* lines 317-320
RECURSIVE ExamplePairs(_)
ExamplePairs(e) ==
    IF e = <<>> THEN <<>>
    ELSE (IF Head(e) # <<>>
          THEN create_training_pairs(Head(e), <<"Go example">>)
          ELSE <<>>)
         \o ExamplePairs(Tail(e))

ExamplesThenDocs(d, e) == ExamplePairs(e) \o DocPairs(d)

\* lines 307-320: the documentation loop, then the examples loop
DocsThenExamples(d, e) == DocPairs(d) \o ExamplePairs(e)

\* the end of the body of "for page in pages"
NextPage ==
    /\ di' = di + 1
    /\ pc' = IF di < Len(pages) THEN "docs" ELSE "examples"

\* lines 229-237: the page request succeeds
ScrapePageOk ==
    /\ pc = "docs"
    /\ \E text \in PageTexts(pages[di]) :
        docs' = Append(docs, [page |-> pages[di], content |-> text])
    /\ NextPage
    /\ slept' = TRUE
    /\ lastCall' = Request("page", TRUE, <<di, 0>>, <<>>)
    /\ pageLog' = Append(pageLog, "ok")
    /\ UNCHANGED ncontent
    /\ UNCHANGED <<entry, upstream, token, searchVars, loopVars, training_data, examples,
                   filesVars, pairsVars, storeVars>>

ScrapePageFailBreak ==
    /\ pc = "docs"
    /\ di' = di + 1
    /\ pc' = "examples"
    /\ slept' = FALSE
    /\ lastCall' = Request("page", FALSE, <<di, 0>>, <<>>)
    /\ pageLog' = Append(pageLog, "request_error")
    /\ UNCHANGED ncontent
    /\ UNCHANGED <<entry, upstream, token, searchVars, loopVars, training_data,
                   docs, examples, filesVars, pairsVars, storeVars>>

\* lines 239-240: the page request raises requests.RequestException
\* (at most MaxDocFailures pages fail in one run of the model)
ScrapePageFail ==
    /\ pc = "docs"
    /\ di - 1 - Len(docs) < MaxDocFailures
    /\ NextPage
    /\ slept' = FALSE
    /\ lastCall' = Request("page", FALSE, <<di, 0>>, <<>>)
    /\ pageLog' = Append(pageLog, "request_error")
    /\ UNCHANGED ncontent
    /\ UNCHANGED <<entry, upstream, token, searchVars, loopVars, training_data, docs,
                   examples, filesVars, pairsVars, storeVars>>

\* line 305 with the request succeeding, then lines 308-322
ScrapeExamplesOk ==
    /\ pc = "examples"
    /\ \E matches \in ExampleMatches :
        /\ examples' = CleanMatches(matches)
        /\ training_data' =
               training_data \o DocsThenExamples(docs, examples')
    /\ pc' = "done"
    /\ slept' = FALSE
    /\ lastCall' = Request("examples", TRUE, <<1, 0>>, <<>>)
    /\ UNCHANGED <<pageLog, ncontent>>
    /\ UNCHANGED <<entry, upstream, token, searchVars, loopVars, docs, di, filesVars,
                   pairsVars, storeVars>>

\* line 305 with the request raising (lines 263-264), then lines 308-322
ScrapeExamplesFail ==
    /\ pc = "examples"
    /\ examples' = <<>>
    /\ training_data' = training_data \o DocsThenExamples(docs, examples')
    /\ pc' = "done"
    /\ slept' = FALSE
    /\ lastCall' = Request("examples", FALSE, <<1, 0>>, <<>>)
    /\ UNCHANGED <<pageLog, ncontent>>
    /\ UNCHANGED <<entry, upstream, token, searchVars, loopVars, docs, di, filesVars,
                   pairsVars, storeVars>>

----------------------------------------------------------------------------
(* The run of collect_training_data *)

NoFile == "NoFile"
Paths == {"training_data.json", "backup.json"}

NoCall == [op |-> "none", path |-> "", existed |-> FALSE, before |-> <<>>,
           prev |-> <<"none", "">>]

IdleFiles == tree = <<>> /\ max_files = 0 /\ go_files = <<>>
IdlePairs == code = <<>> /\ context = <<>> /\ pairs = <<>> /\ cleaned = <<>>
IdleStore ==
    /\ fs = [p \in Paths |-> NoFile]
    /\ disk = [p \in Paths |-> NoFile]
    /\ last = NoCall
IdleSearch ==
    /\ repos = <<>> /\ page = 1 /\ top = <<>> /\ fetched = <<>>
    /\ calls = 0 /\ failedAt = 0 /\ emptyPage = FALSE
IdleLoop ==
    /\ ri = 1 /\ files = <<>> /\ fi = 1 /\ treeLog = <<>> /\ dlLog = "none"
    /\ docs = <<>> /\ di = 1 /\ examples = <<>> /\ slept = FALSE
    /\ lastCall = NoRequest /\ pageLog = <<>> /\ ncontent = 0

\* GoModelTrainer.__init__, then collect_training_data(github_token, max_repos)
Init ==
    /\ entry = "collect_training_data"
    /\ upstream = "bounded"
    /\ token \in {Absent, "", "ghp_x"}
    /\ limit \in 0..MaxRepos
    /\ pc = IF Truthy(token) THEN "search" ELSE "docs"
    /\ training_data = <<>>
    /\ IdleSearch /\ IdleLoop /\ IdleFiles /\ IdlePairs /\ IdleStore

Next ==
    \/ SearchPageOk
    \/ SearchPageFail
    \/ ReturnTopRepos
    \/ GetRepoFilesOk
    \/ GetRepoFilesFail
    \/ DownloadOk
    \/ DownloadError
    \/ ScrapePageOk
    \/ ScrapePageFail
    \/ ScrapeExamplesOk
    \/ ScrapeExamplesFail

Spec == Init /\ [][Next]_vars

\* get_top_go_repos(limit) called on its own
InitRepos ==
    /\ entry = "get_top_go_repos"
    /\ upstream = "bounded"
    /\ token = "ghp_x"
    /\ limit \in 0..MaxLimit
    /\ pc = "search"
    /\ training_data = <<>>
    /\ IdleSearch /\ IdleLoop /\ IdleFiles /\ IdlePairs /\ IdleStore

NextRepos ==
    \/ SearchPageOk
    \/ SearchPageFail
    \/ ReturnTopRepos

SpecRepos == InitRepos /\ [][NextRepos]_vars

\* collect_training_data(github_token, 1) up to the end of the repository
\* loop, on one repository whose main.go holds any text of FileTexts
InitOneFile ==
    /\ entry = "collect_training_data"
    /\ upstream = "texts"
    /\ token = "ghp_x"
    /\ limit = 1
    /\ pc = "search"
    /\ training_data = <<>>
    /\ IdleSearch /\ IdleLoop /\ IdleFiles /\ IdlePairs /\ IdleStore

NextOneFile ==
    \/ SearchPageOk
    \/ ReturnTopRepos
    \/ GetRepoFilesOk
    \/ DownloadOk
    \/ DownloadError

SpecOneFile == InitOneFile /\ [][NextOneFile]_vars

\* collect_training_data(github_token, max_repos) with max_repos above 50,
\* against hosts that answer every request in full
InitCaps ==
    /\ entry = "collect_training_data"
    /\ upstream \in Full
    /\ token = "ghp_x"
    /\ limit \in {TopRepos + 1, PerPage + 1}
    /\ pc = "search"
    /\ training_data = <<>>
    /\ IdleSearch /\ IdleLoop /\ IdleFiles /\ IdlePairs /\ IdleStore

NextCaps ==
    \/ SearchPageOk
    \/ ReturnTopRepos
    \/ GetRepoFilesOk
    \/ DownloadOk
    \/ ScrapePageOk
    \/ ScrapeExamplesOk

SpecCaps == InitCaps /\ [][NextCaps]_vars

----------------------------------------------------------------------------
(* json.dump(..., indent=2, ensure_ascii=False) and json.load on a list of
   {"prompt": str, "completion": str} objects, character by character *)

KeyPrompt == <<"p", "r", "o", "m", "p", "t">>
KeyCompletion == <<"c", "o", "m", "p", "l", "e", "t", "i", "o", "n">>

EscapeCharQuoteOnly(c) ==
    CASE c = "\"" -> <<"\\", "\"">>
      [] c = "\n" -> <<"\\", "n">>
      [] OTHER -> <<c>>

\* the encoder's escape of one character of a str
EscapeChar(c) ==
    CASE c = "\"" -> <<"\\", "\"">>
      [] c = "\\" -> <<"\\", "\\">>
      [] c = "\n" -> <<"\\", "n">>
      [] c = "\t" -> <<"\\", "t">>
      [] c = "\r" -> <<"\\", "r">>
      [] OTHER -> <<c>>

RECURSIVE Escape(_)
Escape(str) ==
    IF str = <<>> THEN <<>> ELSE EscapeChar(Head(str)) \o Escape(Tail(str))

DumpStr(str) == <<"\"">> \o Escape(str) \o <<"\"">>

Spaces(n) == [i \in 1..n |-> " "]

DumpPair(pr) ==
    <<"{", "\n">>
    \o Spaces(4) \o DumpStr(KeyPrompt) \o <<":", " ">> \o DumpStr(pr.prompt)
    \o <<",", "\n">>
    \o Spaces(4) \o DumpStr(KeyCompletion) \o <<":", " ">> \o DumpStr(pr.completion)
    \o <<"\n">> \o Spaces(2) \o <<"}">>

RECURSIVE DumpItems(_)
DumpItems(d) ==
    IF Len(d) = 1 THEN Spaces(2) \o DumpPair(d[1])
    ELSE Spaces(2) \o DumpPair(d[1]) \o <<",", "\n">> \o DumpItems(Tail(d))

\* json.dump(self.training_data, f, indent=2, ensure_ascii=False)
Dump(d) ==
    IF d = <<>> THEN <<"[", "]">>
    ELSE <<"[", "\n">> \o DumpItems(d) \o <<"\n", "]">>

ParseError == "JSONDecodeError"
Failed == [ok |-> FALSE, val |-> ParseError]

RECURSIVE SkipWS(_, _)
SkipWS(t, i) == IF i <= Len(t) /\ t[i] \in WS THEN SkipWS(t, i + 1) ELSE i

At(t, i, c) == i <= Len(t) /\ t[i] = c

\* the decoder's reading of the character after a backslash
Unescape(c) ==
    CASE c = "\"" -> "\""
      [] c = "\\" -> "\\"
      [] c = "n" -> "\n"
      [] c = "t" -> "\t"
      [] c = "r" -> "\r"
      [] OTHER -> ParseError

\* the body of a string from index i, up to and including its closing quote
RECURSIVE ReadStr(_, _, _)
ReadStr(t, i, acc) ==
    IF i > Len(t) THEN Failed
    ELSE IF t[i] = "\"" THEN [ok |-> TRUE, val |-> acc, next |-> i + 1]
    ELSE IF t[i] \in {"\n", "\t", "\r"} THEN Failed
    ELSE IF t[i] = "\\"
         THEN IF i + 1 > Len(t) \/ Unescape(t[i + 1]) = ParseError THEN Failed
              ELSE ReadStr(t, i + 2, Append(acc, Unescape(t[i + 1])))
    ELSE ReadStr(t, i + 1, Append(acc, t[i]))

ParseStr(t, i) == IF At(t, i, "\"") THEN ReadStr(t, i + 1, <<>>) ELSE Failed

\* one "key": "value" member from index i
ParseMember(t, i) ==
    LET k == ParseStr(t, SkipWS(t, i)) IN
    IF ~k.ok THEN Failed
    ELSE LET c == SkipWS(t, k.next) IN
         IF ~At(t, c, ":") THEN Failed
         ELSE LET v == ParseStr(t, SkipWS(t, c + 1)) IN
              IF ~v.ok THEN Failed
              ELSE [ok |-> TRUE, key |-> k.val, val |-> v.val, next |-> v.next]

\* the members of an object from index i, up to and including its "}"
RECURSIVE ReadMembers(_, _, _)
ReadMembers(t, i, acc) ==
    LET m == ParseMember(t, i) IN
    IF ~m.ok THEN Failed
    ELSE LET j == SkipWS(t, m.next)
             obj == [k \in DOMAIN acc \cup {m.key} |->
                        IF k = m.key THEN m.val ELSE acc[k]]
         IN IF At(t, j, ",") THEN ReadMembers(t, j + 1, obj)
            ELSE IF At(t, j, "}") THEN [ok |-> TRUE, val |-> obj, next |-> j + 1]
            ELSE Failed

NoMembers == [k \in {} |-> <<>>]

\* a dict read back, as a pair
AsPair(obj) ==
    IF DOMAIN obj = {KeyPrompt, KeyCompletion}
    THEN [prompt |-> obj[KeyPrompt], completion |-> obj[KeyCompletion]]
    ELSE obj

ParseObject(t, i) ==
    IF ~At(t, i, "{") THEN Failed
    ELSE IF At(t, SkipWS(t, i + 1), "}")
         THEN [ok |-> TRUE, val |-> NoMembers, next |-> SkipWS(t, i + 1) + 1]
         ELSE ReadMembers(t, i + 1, NoMembers)

\* the items of an array from index i, up to and including its "]"
RECURSIVE ReadItems(_, _, _)
ReadItems(t, i, acc) ==
    LET o == ParseObject(t, SkipWS(t, i)) IN
    IF ~o.ok THEN Failed
    ELSE LET j == SkipWS(t, o.next) IN
         IF At(t, j, ",") THEN ReadItems(t, j + 1, Append(acc, AsPair(o.val)))
         ELSE IF At(t, j, "]")
              THEN [ok |-> TRUE, val |-> Append(acc, AsPair(o.val)), next |-> j + 1]
              ELSE Failed

ParseArray(t, i) ==
    IF ~At(t, i, "[") THEN Failed
    ELSE IF At(t, SkipWS(t, i + 1), "]")
         THEN [ok |-> TRUE, val |-> <<>>, next |-> SkipWS(t, i + 1) + 1]
         ELSE ReadItems(t, i + 1, <<>>)

\* json.load(f): the value read, or ok = FALSE for json.JSONDecodeError
Load(t) ==
    LET a == ParseArray(t, SkipWS(t, 1)) IN
    IF a.ok /\ SkipWS(t, a.next) > Len(t) THEN [ok |-> TRUE, val |-> a.val]
    ELSE Failed

----------------------------------------------------------------------------
(* get_repo_files(repo, max_files) called on its own *)

TreePaths == {MainGo, GoSuffix, Readme, <<"g", "o">>}
TreeItems == {[type |-> ty, path |-> pa] : ty \in {"blob", "tree"}, pa \in TreePaths}

\* lines 92-104: the tree request succeeds
ListFilesOk ==
    /\ entry = "get_repo_files"
    /\ pc = "tree"
    /\ go_files' = get_repo_files(tree, max_files)
    /\ pc' = "done"
    /\ treeLog' = Append(treeLog, "ok")
    /\ UNCHANGED <<entry, upstream, token, searchVars, ri, files, fi, dlLog, slept, histVars,
                   training_data, docVars, tree, max_files, pairsVars, storeVars>>

\* lines 106-108: the tree request raises requests.RequestException
ListFilesFail ==
    /\ entry = "get_repo_files"
    /\ pc = "tree"
    /\ go_files' = OnTreeError
    /\ pc' = "done"
    /\ treeLog' = Append(treeLog, "request_error")
    /\ UNCHANGED <<entry, upstream, token, searchVars, ri, files, fi, dlLog, slept, histVars,
                   training_data, docVars, tree, max_files, pairsVars, storeVars>>

InitFiles ==
    /\ entry = "get_repo_files"
    /\ upstream = "bounded"
    /\ token = "ghp_x"
    /\ limit = 0
    /\ pc = "tree"
    /\ training_data = <<>>
    /\ tree \in SeqUpTo(TreeItems, MaxTree)
    /\ max_files \in 0..MaxFiles
    /\ go_files = <<>>
    /\ IdleSearch /\ IdleLoop /\ IdlePairs /\ IdleStore

NextFiles == ListFilesOk \/ ListFilesFail

SpecFiles == InitFiles /\ [][NextFiles]_vars

----------------------------------------------------------------------------
(* create_training_pairs(code, context) called on its own *)

CodeChars == {"x", " ", "\n"}
Labels == {<<>>, <<"from ", "o/a">>}

CreatePairs ==
    /\ entry = "create_training_pairs"
    /\ pc = "call"
    /\ pairs' = create_training_pairs(code, context)
    /\ pc' = "done"
    /\ UNCHANGED <<entry, upstream, token, searchVars, loopVars, slept, histVars, training_data,
                   docVars, filesVars, code, context, cleaned, storeVars>>

InitPairs ==
    /\ entry = "create_training_pairs"
    /\ upstream = "bounded"
    /\ token = ""
    /\ limit = 0
    /\ pc = "call"
    /\ training_data = <<>>
    /\ code \in SeqUpTo(CodeChars, MaxCode)
    /\ context \in Labels
    /\ pairs = <<>>
    /\ cleaned = <<>>
    /\ IdleSearch /\ IdleLoop /\ IdleFiles /\ IdleStore

NextPairs == CreatePairs

SpecPairs == InitPairs /\ [][NextPairs]_vars

----------------------------------------------------------------------------
(* clean_go_code(code) called on its own *)

CleanCode ==
    /\ entry = "clean_go_code"
    /\ pc = "call"
    /\ cleaned' = clean_go_code(code)
    /\ pc' = "done"
    /\ UNCHANGED <<entry, upstream, token, searchVars, loopVars, slept, histVars,
                   training_data, docVars, filesVars, code, context, pairs,
                   storeVars>>

InitClean ==
    /\ entry = "clean_go_code"
    /\ upstream = "bounded"
    /\ token = ""
    /\ limit = 0
    /\ pc = "call"
    /\ training_data = <<>>
    /\ code \in CleanInputs
    /\ context = <<>>
    /\ pairs = <<>>
    /\ cleaned = <<>>
    /\ IdleSearch /\ IdleLoop /\ IdleFiles /\ IdleStore

NextClean == CleanCode

SpecClean == InitClean /\ [][NextClean]_vars

----------------------------------------------------------------------------
(* save_training_data(path) and load_training_data(path) *)

StrChars == {"n", "\"", "\\", "\n"}
Strs == SeqUpTo(StrChars, MaxStr)

PairA == [prompt |-> <<"a", "\"">>, completion |-> <<"\n">>]
PairB == [prompt |-> <<"\\", "n">>, completion |-> <<>>]

\* the pair sequences a trainer holds when save or load is called
Datasets ==
    {<<[prompt |-> ab[1], completion |-> ab[2]]>> :
        ab \in {x \in Strs \X Strs : Len(x[1]) + Len(x[2]) <= MaxStr}}
    \cup SeqUpTo({PairA, PairB}, MaxPairs)

\* a file an earlier run saved
OldData == <<PairB, PairA>>

\* open(output_file, 'w'): the file is truncated, then written
Overwrite(old, text) == text

Merge(old, loaded) == old \o loaded

\* self.training_data = json.load(f)
Replace(old, loaded) == loaded

\* lines 328-329
save_training_data(p) ==
    /\ entry = "store"
    /\ pc = "idle"
    /\ fs' = [fs EXCEPT ![p] = Overwrite(fs[p], Dump(training_data))]
    /\ disk' = [disk EXCEPT ![p] = training_data]
    /\ last' = [op |-> "save", path |-> p, existed |-> fs[p] # NoFile,
                before |-> training_data, prev |-> <<last.op, last.path>>]
    /\ UNCHANGED <<entry, upstream, pc, token, searchVars, loopVars, slept, histVars, training_data,
                   docVars, filesVars, pairsVars>>

\* lines 335-340
load_training_data(p) ==
    /\ entry = "store"
    /\ pc = "idle"
    /\ IF fs[p] # NoFile
       THEN IF Load(fs[p]).ok
            THEN pc' = pc /\ training_data' = Replace(training_data, Load(fs[p]).val)
            ELSE pc' = "raised" /\ UNCHANGED training_data
       ELSE UNCHANGED <<pc, training_data>>
    /\ last' = [op |-> "load", path |-> p, existed |-> fs[p] # NoFile,
                before |-> training_data, prev |-> <<last.op, last.path>>]
    /\ UNCHANGED <<entry, upstream, token, searchVars, loopVars, slept, histVars, docVars,
                   filesVars, pairsVars, fs, disk>>

InitStore ==
    /\ entry = "store"
    /\ upstream = "bounded"
    /\ token = ""
    /\ limit = 0
    /\ pc = "idle"
    /\ training_data \in Datasets
    /\ disk \in {[p \in Paths |-> NoFile],
                 [p \in Paths |-> IF p = "training_data.json" THEN OldData ELSE NoFile]}
    /\ fs = [p \in Paths |-> IF disk[p] = NoFile THEN NoFile ELSE Dump(disk[p])]
    /\ last = NoCall
    /\ IdleSearch /\ IdleLoop /\ IdleFiles /\ IdlePairs

NextStore == \E p \in Paths : save_training_data(p) \/ load_training_data(p)

SpecStore == InitStore /\ [][NextStore]_vars

----------------------------------------------------------------------------
(* Properties of get_top_go_repos, under SpecRepos *)

IsPrefix(a, b) == Len(a) <= Len(b) /\ SubSeq(b, 1, Len(a)) = a

\* C1: the pagination loop stops once the upstream answers a page with no
\* items: after an empty page no further search request is due.
C1_StopsOnEmptyPage ==
    emptyPage => ~(pc = "search" /\ MorePages(repos, limit))

\* C2: the sequence get_top_go_repos returns has at most limit entries and is
\* a prefix of the concatenation of the answered pages, in page order.
C2_AtMostLimitPrefix ==
    pc = "done" => Len(top) <= limit /\ IsPrefix(top, fetched)

C2_Witness ==
    /\ pc = "done"
    /\ calls >= 2
    /\ limit >= 2
    /\ Len(fetched) > limit
    /\ Len(top) = limit
    /\ top[1] # top[2]

\* C3: when the request of page k fails, no further search request is issued
\* and the call returns, without raising, the items of pages 1..k-1.
C3_PartialOnFailure ==
    failedAt # 0 =>
        /\ pc \in {"return", "done"}
        /\ calls = failedAt
        /\ page = failedAt
        /\ pc = "done" => top = Take(fetched, limit)

C3_Witness ==
    /\ pc = "done"
    /\ failedAt >= 2
    /\ top # <<>>
    /\ top = fetched

----------------------------------------------------------------------------
(* Properties of collect_training_data, under Spec *)

\* C4: download_file_content answers every failure of a content request,
\* a decode failure included, with None: no such failure raises.
C4_DownloadNeverRaises ==
    dlLog \in {"request_error", "decode_error"} => pc # "raised"

\* C5: a failed content request of one file prevents no other file: when the
\* run has ended, no file of the listing and no later repository is left
\* unfetched.
C5_OtherFilesStillProcessed ==
    pc \in {"done", "raised"} => fi >= Len(files) /\ ri >= Len(Targets)

LastTree == IF treeLog = <<>> THEN "none" ELSE treeLog[Len(treeLog)]

\* C7: a failed tree request leaves the repository without files, raises
\* nothing, and the run goes on with the next repository: when the loop is
\* left, a tree request was issued for every repository of repos[:50].
C7_TreeFailureSkipsRepo ==
    /\ pc = "raised" => LastTree = "ok"
    /\ LastTree = "request_error" =>
        /\ files = <<>>
        /\ \/ pc = "tree" /\ ri = Len(treeLog) + 1 /\ ri <= Len(Targets)
           \/ pc \in {"docs", "examples", "done"} /\ Len(treeLog) = Len(Targets)
    /\ pc \in {"docs", "examples", "done"} => Len(treeLog) = Len(Targets)

C7_Witness ==
    /\ pc = "done"
    /\ \E i, j \in DOMAIN treeLog :
        /\ i < j
        /\ treeLog[i] = "request_error"
        /\ treeLog[j] = "ok"
        /\ Targets[i].full_name # Targets[j].full_name
        /\ \E k \in DOMAIN training_data :
            training_data[k].prompt =
                <<"Write Go code for: ", "from ">> \o Targets[j].full_name

----------------------------------------------------------------------------
(* Properties of get_repo_files, under SpecFiles *)

GoBlob(item) ==
    LET n == Len(item.path) IN
    /\ item.type = "blob"
    /\ n >= 3
    /\ item.path[n - 2] = "." /\ item.path[n - 1] = "g" /\ item.path[n] = "o"

\* C6: get_repo_files returns exactly the first max_files entries, in listing
\* order, of the tree entries that are blobs with a path ending in ".go".
C6_FirstGoBlobs ==
    (pc = "done" /\ treeLog = <<"ok">>) =>
        /\ go_files = Take(SelectSeq(tree, GoBlob), max_files)
        /\ Len(go_files) <= max_files
        /\ \A i \in DOMAIN go_files : GoBlob(go_files[i])

C6_Witness ==
    /\ pc = "done"
    /\ treeLog = <<"ok">>
    /\ max_files >= 1
    /\ Len(go_files) = max_files
    /\ Len(SelectSeq(tree, GoBlob)) > max_files
    /\ tree[1].type = "tree"
    /\ EndsWith(tree[1].path, GoSuffix)

----------------------------------------------------------------------------
(* Properties of create_training_pairs, under SpecPairs *)

HasText(c) == \E i \in DOMAIN c : c[i] \notin WS

Kinds(ps) == [i \in DOMAIN ps |-> ps[i].prompt[1]]

\* C8 as stated: no pairs for empty text, exactly three for every text of
\* length > 0 (whitespace-only text included) with an empty label, exactly
\* four for every such text with a non-empty label.
C8_ByLength ==
    pc = "done" =>
        /\ code = <<>> => pairs = <<>>
        /\ (code # <<>> /\ context = <<>>) => Len(pairs) = 3
        /\ (code # <<>> /\ context # <<>>) => Len(pairs) = 4

\* C8 as amended: no pairs for text that is empty or holds only whitespace;
\* explanation, debugging, improvement for every other text with an empty
\* label; explanation, generation, debugging, improvement with a non-empty one.
C8_ByStrippedText ==
    pc = "done" =>
        /\ ~HasText(code) => pairs = <<>>
        /\ (HasText(code) /\ context = <<>>) =>
            Kinds(pairs) = <<"Explain this Go code:\n\n",
                             "Debug this Go code:\n\n",
                             "Improve this Go code:\n\n">>
        /\ (HasText(code) /\ context # <<>>) =>
            Kinds(pairs) = <<"Explain this Go code:\n\n",
                             "Write Go code for: ",
                             "Debug this Go code:\n\n",
                             "Improve this Go code:\n\n">>

C8_Witness ==
    /\ pc = "done"
    /\ code # <<>>
    /\ ~HasText(code)
    /\ context # <<>>
    /\ pairs = <<>>

----------------------------------------------------------------------------
(* Properties of save_training_data and load_training_data, under SpecStore *)

\* C9 as stated: a load from a path where no file exists leaves the sequence
\* empty, whatever it held before the call.
C9_AbsentLeavesEmpty ==
    (last.op = "load" /\ ~last.existed) => training_data = <<>>

\* C9 as amended: a load from a path where no file exists raises nothing and
\* leaves the sequence as it was before the call; a load from an existing
\* file replaces the whole sequence with the pairs the file holds.
C9_AbsentLeavesUnchanged ==
    last.op = "load" =>
        /\ pc # "raised"
        /\ IF last.existed
           THEN training_data = disk[last.path]
           ELSE training_data = last.before

C9_Witness ==
    /\ last.op = "load"
    /\ ~last.existed
    /\ training_data # <<>>
    /\ training_data = last.before

\* C10: a load that follows a save on the same path yields the saved
\* sequence (same pairs, same order), and after a save the file holds the
\* saved sequence and nothing of what it held before.
C10_RoundTrip ==
    /\ (last.op = "load" /\ last.prev = <<"save", last.path>>) =>
        pc # "raised" /\ training_data = last.before
    /\ last.op = "save" =>
        Load(fs[last.path]).ok /\ Load(fs[last.path]).val = training_data

C10_Witness ==
    /\ last.op = "load"
    /\ last.prev = <<"save", last.path>>
    /\ Len(training_data) = 2
    /\ training_data[1] # training_data[2]
    /\ training_data # OldData
    /\ disk["backup.json"] = NoFile

----------------------------------------------------------------------------
(* Pacing and the credential *)

\* C11: after each successful outbound call a rate-limit delay is taken
\* before the next outbound call is issued
C11_PacedAfterSuccess ==
    (lastCall.ok /\ pc \notin {"done", "raised"}) => slept

NoCredential == token \in {Absent, ""}

\* C12: without a credential no search, tree-listing or content request is
\* issued, and the documentation pages and the examples page are still
\* fetched and their pairs appended
C12_NoCredentialDocsOnly ==
    NoCredential =>
        /\ lastCall.kind \in {"none", "page", "examples"}
        /\ calls = 0 /\ treeLog = <<>> /\ dlLog = "none" /\ ncontent = 0
        /\ pc \in {"docs", "examples", "done"}
        /\ Len(pageLog) = di - 1
        /\ pc = "done" =>
            /\ Len(pageLog) = Len(pages)
            /\ lastCall.kind = "examples"
            /\ training_data = DocPairs(docs) \o ExamplePairs(examples)

C12_Witness ==
    /\ token = Absent
    /\ pc = "done"
    /\ lastCall.ok
    /\ Len(docs) = Len(pages)
    /\ Len(training_data) = 4 * (Len(docs) - 2 + 1)

----------------------------------------------------------------------------
(* The order of training_data *)

Groups == Len(training_data) \div 4
Group(k) == SubSeq(training_data, 4 * k - 3, 4 * k)

\* the context label a group of four pairs carries
Label(k) == Tail(Group(k)[2].prompt)

\* g is explanation, generation, debugging, improvement of one text
IsGroup(g, ctx) ==
    /\ Len(g) = 4
    /\ g = <<ExplainPair(g[2].completion, ctx),
             GeneratePair(g[2].completion, ctx),
             DebugPair(g[2].completion),
             ImprovePair(g[2].completion)>>

\* 1: a repository file, 2: a documentation page, 3: an example
Class(l) ==
    CASE l[1] = "from " -> 1
      [] l[1] = "Go documentation from " -> 2
      [] l[1] = "Go example" -> 3
      [] OTHER -> 0

PageIndex(l) == CHOOSE i \in 1..Len(pages) : pages[i] = Tail(l)

\* the file groups from group k on name repositories of repos[:50] from
\* position j on, in ranking order
RECURSIVE InRanking(_, _)
InRanking(k, j) ==
    IF k > Groups \/ Class(Label(k)) # 1 THEN TRUE
    ELSE LET js == {x \in j..Len(Targets) :
                      <<"from ">> \o Targets[x].full_name = Label(k)}
         IN  /\ js # {}
             /\ InRanking(k + 1, CHOOSE x \in js : \A y \in js : x <= y)

C13_Grouped ==
    /\ Len(training_data) = 4 * Groups
    /\ \A k \in 1..Groups :
        /\ Class(Label(k)) \in 1..3
        /\ IsGroup(Group(k), Label(k))
    /\ \A k \in 1..(Groups - 1) :
        /\ Class(Label(k)) <= Class(Label(k + 1))
        /\ (Class(Label(k)) = 2 /\ Class(Label(k + 1)) = 2)
               => PageIndex(Label(k)) < PageIndex(Label(k + 1))
    /\ InRanking(1, 1)

\* what a step appends, and the move of the file enumeration
C13_Step ==
    /\ IsPrefix(training_data, training_data')
    /\ LET add == SubSeq(training_data', Len(training_data) + 1,
                         Len(training_data'))
       IN  CASE pc = "file" ->
                  /\ add = <<>> \/ IsGroup(add, <<"from ">> \o repo_name)
                  /\ \/ pc' = "file" /\ ri' = ri /\ fi' = fi + 1
                     \/ pc' = "tree" /\ ri' = ri + 1
                     \/ pc' \in {"docs", "raised"}
             [] pc = "tree" ->
                  /\ add = <<>>
                  /\ \/ pc' = "file" /\ ri' = ri /\ fi' = 1
                     \/ pc' = "tree" /\ ri' = ri + 1
                     \/ pc' = "docs"
             [] pc = "examples" -> pc' = "done"
             [] pc = "docs" -> add = <<>> /\ pc' \in {"docs", "examples"}
             [] OTHER -> add = <<>>

\* C13: the dataset is append-only and in enumeration order: every step
\* leaves the previous sequence as a prefix of the new one; the pairs are
\* grouped by source, repositories in ranking order and their files in
\* listing order, then documentation pages, then examples, each group in
\* the order explanation, generation, debugging, improvement
C13_AppendOnlyInOrder == [](C13_Grouped) /\ [][C13_Step]_vars

C13_Witness ==
    /\ pc = "done"
    /\ Groups >= 5
    /\ Class(Label(1)) = 1 /\ Class(Label(2)) = 1
    /\ Label(1) # Label(2)
    /\ \E k \in 1..(Groups - 1) :
        Class(Label(k)) = 2 /\ Class(Label(k + 1)) = 2
    /\ Class(Label(Groups)) = 3

----------------------------------------------------------------------------
(* One file of a repository *)

\* what the last content request added to training_data
Added == SubSeq(training_data, lastCall.before + 1, Len(training_data))

\* C14: every file whose content fetch succeeds and whose cleaned text is
\* non-empty adds exactly 4 pairs, the generation pair completing with the
\* cleaned text cut to 500 characters; "package main\n// hi\nfunc main(){}\n"
\* gives the completion "package main\nfunc main(){}"; a README.md entry of
\* the same tree is never requested and adds nothing
C14_FourPairsPerFile ==
    /\ \A i \in DOMAIN files : files[i].path # Readme
    /\ pc = "docs" => ncontent = Len(files)
    /\ (lastCall.kind = "content" /\ lastCall.ok) =>
        LET t == clean_go_code(lastCall.text)
        IN  /\ IF lastCall.text # <<>> /\ t # <<>>
               THEN /\ IsGroup(Added, <<"from ">> \o repo_name)
                    /\ Added[2].completion = Take(t, PromptChars)
                    /\ Len(Added[2].completion) <= PromptChars
               ELSE Added = <<>>
            /\ lastCall.text = MainGoText =>
                   Added[2].completion =
                       <<"package main", "\n", "func main(){}">>

C14_Witness ==
    /\ lastCall.kind = "content" /\ lastCall.ok
    /\ lastCall.text = MainGoText
    /\ files = <<Blob(MainGo)>>
    /\ Len(training_data) = 4
    /\ training_data[2].completion = <<"package main", "\n", "func main(){}">>

C14_Truncated ==
    /\ lastCall.kind = "content" /\ lastCall.ok
    /\ Len(clean_go_code(lastCall.text)) > PromptChars
    /\ Len(training_data[2].completion) = PromptChars

----------------------------------------------------------------------------
(* clean_go_code *)

\* s holds "//"
HasLineComment(s) ==
    \E i \in 1..(Len(s) - 1) : s[i] = "/" /\ s[i + 1] = "/"

\* s holds "/*" followed, without overlap, by "*/"
HasBlockComment(s) ==
    \E i \in 1..(Len(s) - 3) : \E j \in (i + 2)..(Len(s) - 1) :
        s[i] = "/" /\ s[i + 1] = "*" /\ s[j] = "*" /\ s[j + 1] = "/"

\* indices at which a line of s starts
LineStarts(s) == {1} \cup {i + 1 : i \in {j \in DOMAIN s : s[j] = "\n"}}

\* a line of s is empty or holds whitespace only
HasBlankLine(s) ==
    \E a \in LineStarts(s) : \A k \in a..(EndOfLine(s, a) - 1) : s[k] \in WS

\* C15: the text clean_go_code returns holds no line comment, no block
\* comment, no blank (empty or whitespace-only) line and no leading or
\* trailing whitespace
C15_NoCommentsNoBlanks ==
    pc = "done" =>
        /\ ~HasLineComment(cleaned)
        /\ ~HasBlockComment(cleaned)
        /\ cleaned # <<>> =>
            /\ ~HasBlankLine(cleaned)
            /\ cleaned[1] \notin WS
            /\ cleaned[Len(cleaned)] \notin WS

C15_Witness ==
    /\ pc = "done"
    /\ HasBlockComment(code)
    /\ HasBlankLine(code)
    /\ cleaned # <<>>
    /\ cleaned # code

\* the text of s from index i on that lies outside the comments of the Go
\* grammar: "//" to the end of the line, "/*" to the next "*/"
RECURSIVE CodeOutsideComments(_, _)
CodeOutsideComments(s, i) ==
    IF i > Len(s) THEN <<>>
    ELSE IF s[i] = "/" /\ i < Len(s) /\ s[i + 1] = "/"
         THEN CodeOutsideComments(s, EndOfLine(s, i))
    ELSE IF s[i] = "/" /\ i < Len(s) /\ s[i + 1] = "*" /\ BlockEnd(s, i + 2) # 0
         THEN CodeOutsideComments(s, BlockEnd(s, i + 2) + 2)
    ELSE <<s[i]>> \o CodeOutsideComments(s, i + 1)

RECURSIVE NonWS(_)
NonWS(s) ==
    IF s = <<>> THEN <<>>
    ELSE (IF Head(s) \in WS THEN <<>> ELSE <<Head(s)>>) \o NonWS(Tail(s))

\* a is found in b, in order
RECURSIVE IsSubsequence(_, _)
IsSubsequence(a, b) ==
    IF a = <<>> THEN TRUE
    ELSE IF b = <<>> THEN FALSE
    ELSE IF Head(a) = Head(b) THEN IsSubsequence(Tail(a), Tail(b))
    ELSE IsSubsequence(a, Tail(b))

\* C16: clean_go_code does not alter non-comment code: every code character
\* outside the line and block comments of the input is still in the output,
\* in order, and only comment text and whitespace are removed
C16_CodeKept ==
    pc = "done" =>
        IsSubsequence(NonWS(CodeOutsideComments(code, 1)), cleaned)

----------------------------------------------------------------------------
(* Requests are issued once *)

Before(a, b) ==
    \/ a[1] < b[1]
    \/ a[1] = b[1] /\ a[2] < b[2]
    \/ a[1] = b[1] /\ a[2] = b[2] /\ a[3] < b[3]

\* place of the last request in the enumeration: search pages, then the
\* tree and the files of each repository, then the pages, then the examples
Asked ==
    CASE lastCall.kind = "search" -> <<0, lastCall.at[1], 0>>
      [] lastCall.kind \in {"tree", "content"} ->
             <<1, lastCall.at[1], lastCall.at[2]>>
      [] lastCall.kind = "page" -> <<2, lastCall.at[1], 0>>
      [] lastCall.kind = "examples" -> <<3, 1, 0>>
      [] OTHER -> <<0, 0, 0>>

\* a request is the next step
RequestDue ==
    \/ pc = "search" /\ MorePages(repos, limit)
    \/ pc \in {"tree", "file", "docs", "examples"}

\* place of the request due next
Due ==
    CASE pc = "search" -> <<0, page, 0>>
      [] pc = "tree" -> <<1, ri, 0>>
      [] pc = "file" -> <<1, ri, fi>>
      [] pc = "docs" -> <<2, di, 0>>
      [] OTHER -> <<3, 1, 0>>

\* the most .go files a tree listing of this run returns
MostFiles ==
    CHOOSE n \in 0..RepoMaxFiles :
        /\ \E t \in UpstreamTrees : Len(get_repo_files(t, RepoMaxFiles)) = n
        /\ \A t \in UpstreamTrees : Len(get_repo_files(t, RepoMaxFiles)) <= n

\* C17: no request is reissued: the request due next is for a later unit of
\* the enumeration than the last request, failed or not; a failed search
\* page ends the pagination; after a tree listing, a file content or a
\* documentation page that failed with a request error the run goes on with
\* the next unit; the requests issued are at most one per unit
C17_NoRetry ==
    /\ (lastCall.kind # "none" /\ RequestDue) => Before(Asked, Due)
    /\ (lastCall.kind = "search" /\ ~lastCall.ok) => pc # "search"
    /\ (lastCall.kind \in {"tree", "page"} /\ ~lastCall.ok) => RequestDue
    /\ (lastCall.kind = "content" /\ ~lastCall.ok /\ dlLog = "request_error")
           => RequestDue
    /\ pc = "search" => calls = page - 1
    /\ Len(treeLog) <= Len(Targets)
    /\ pc = "tree" => Len(treeLog) = ri - 1
    /\ ncontent <= Len(treeLog) * MostFiles
    /\ Len(pageLog) = di - 1 /\ di <= Len(pages) + 1

C17_Witness ==
    /\ lastCall.kind = "content" /\ ~lastCall.ok
    /\ pc = "file"
    /\ Due = <<1, lastCall.at[1], lastCall.at[2] + 1>>
    /\ \E i \in DOMAIN treeLog : treeLog[i] = "request_error"

----------------------------------------------------------------------------
(* scrape_documentation *)

\* the pages from index i on whose request succeeded
RECURSIVE OkPages(_)
OkPages(i) ==
    IF i > Len(pageLog) THEN <<>>
    ELSE (IF pageLog[i] = "ok" THEN <<pages[i]>> ELSE <<>>) \o OkPages(i + 1)

\* C18: the mapping scrape_documentation returns has exactly the pages of
\* the fixed list whose fetch succeeded as keys; a failed page is absent, the
\* pages after it are still fetched, no other page appears
C18_KeysAreFetchedPages ==
    /\ [k \in DOMAIN docs |-> docs[k].page] = OkPages(1)
    /\ \A k \in DOMAIN docs : \E i \in DOMAIN pages : docs[k].page = pages[i]
    /\ \A j, k \in DOMAIN docs : docs[j].page = docs[k].page => j = k
    /\ Len(pageLog) = di - 1
    /\ pc \in {"examples", "done"} => Len(pageLog) = Len(pages)

C18_Witness ==
    /\ pc = "done"
    /\ pageLog[3] = "request_error"
    /\ Len(docs) = Len(pages) - 1
    /\ docs[3].page = pages[4]
    /\ docs[6].page = pages[7]

----------------------------------------------------------------------------
(* The length of training_data *)

\* C19: starting from an empty dataset, the length of training_data is a
\* multiple of 4 after any run: every source adds no pair or four
C19_MultipleOfFour ==
    /\ Len(training_data) % 4 = 0
    /\ \A i \in DOMAIN training_data :
        (i % 4 = 2) <=> training_data[i].prompt[1] = "Write Go code for: "

C19_Witness ==
    /\ pc = "done"
    /\ ncontent >= 2
    /\ Len(docs) = Len(pages)
    /\ Len(examples) = 2 /\ examples[2] = <<>>
    /\ Len(training_data) = 4 * (1 + 5 + 1)

----------------------------------------------------------------------------
(* The caps of one run *)

\* number of pairs of training_data that come from repository files
RepoPairs == 4 * Cardinality({k \in 1..Groups : Class(Label(k)) = 1})

\* C20: whatever max_repos and the upstream answer, one run lists the files
\* of at most 50 repositories and issues at most 20 content requests per
\* repository: at most 1000 content requests and 4000 repository pairs
C20_RunCaps ==
    /\ Len(Targets) <= TopRepos
    /\ Len(treeLog) <= TopRepos
    /\ Len(files) <= RepoMaxFiles
    /\ lastCall.kind \in {"tree", "content"} =>
        /\ lastCall.at[1] <= TopRepos
        /\ lastCall.at[2] <= RepoMaxFiles
    /\ ncontent <= RepoMaxFiles * Len(treeLog)
    /\ ncontent <= TopRepos * RepoMaxFiles
    /\ RepoPairs <= 4 * TopRepos * RepoMaxFiles

C20_Witness ==
    /\ pc = "docs"
    /\ limit > TopRepos /\ Len(top) > TopRepos
    /\ Len(treeLog) = TopRepos
    /\ Len(files) = RepoMaxFiles \/ upstream = "top_only"
    /\ ncontent >= RepoMaxFiles
    /\ RepoPairs = 4 * ncontent

C20_Saturated ==
    /\ pc = "done"
    /\ Len(treeLog) = TopRepos
    /\ ncontent = TopRepos * RepoMaxFiles
    /\ RepoPairs = 4 * TopRepos * RepoMaxFiles

====
